---------------------------- MODULE Spec2Model ----------------------------
(***************************************************************************)
(* A model of the command line Wordle solver of src/wordle.cpp:            *)
(* the 2-bit pattern codec (SetColor, GetColor), the feedback simulator    *)
(* (GeneratePattern), the candidate filter (FilterAllWordsBestOnPattern),  *)
(* the entropy ranker (GetNextBestGuess) and the two drivers               *)
(* (PlayRandomGame, PlayOffLineGame).                                      *)
(*                                                                         *)
(* A word is a sequence of one-letter strings.  A Pattern is the C++ int   *)
(* restricted to its low PatternBits bits: positions 0..7 address bits     *)
(* 0..15 only, and "p & ~(3 << shift)" passes every higher bit through.    *)
(***************************************************************************)
EXTENDS Integers, Sequences, FiniteSets, TLC

VARIABLES
  call,         \* the pure call under test: its operation and arguments
  ret,          \* what that call returned (done = FALSE before the call)
  mode,         \* "functions" | "random" | "offline"
  wordSize,     \* Wordle::wordSize
  dictionary,   \* Wordle::dictionary
  validWords,   \* the local validWords of the running driver
  wordToGuess,  \* PlayRandomGame: the hidden word
  guess,        \* PlayRandomGame: the local guess
  guesses,      \* PlayRandomGame: the loop counter
  result,       \* PlayRandomGame: the returned optional<string>
  command,      \* PlayOffLineGame: the last command line read
  lastGuess,    \* PlayOffLineGame: the local lastGuess
  pats,         \* promptPatterns: the tokens accepted so far
  pc,           \* where the running driver stands
  rounds,       \* PlayRandomGame: the loop bodies entered so far (history)
  guessed,      \* PlayRandomGame: the values guess has taken, in order (history)
  last          \* the driver's last step: its input, and pc and Len(pats) before it

vars == <<call, ret, mode, wordSize, dictionary, validWords, wordToGuess,
          guess, guesses, result, command, lastGuess, pats, pc, rounds,
          guessed, last>>

---------------------------------------------------------------------------
(* Bounds of the model. *)

\* Width of the modelled part of a Pattern (the int's low bits).
PatternBits == 16
\* SetColor/GetColor are tried on every pattern that uses CodecFields
\* adjacent 2-bit fields, at the low end and at the high end of the range.
CodecFields == 3
\* ... and on every index from -IndexSlack to 7 + IndexSlack.
IndexSlack == 2
\* GeneratePattern is tried on every pair of words of length MinWordSize
\* over the first PairLetters letters, and on every pair of words of one
\* length in MinWordSize..MaxPairSize over the first two letters.
PairLetters == 3
MaxPairSize == 5
\* GeneratePattern(w, w, n) is tried for every n in MinWordSize..MaxWordSize
\* and every word w of length n over the first SelfLetters letters.
SelfLetters == 2
\* The filter is tried on every candidate sequence of at most MaxCandidates
\* words out of FilterWords.
MaxCandidates == 3
\* PlayRandomGame runs with every word length MinWordSize..MaxGameSize, from
\* every dictionary out of the lexicon of that length.
MaxGameSize == 4
\* PlayOffLineGame runs with word length MinWordSize, from every dictionary
\* of at most MaxOfflineDict words.
MaxOfflineDict == 2

(* Program constants. *)
Gray == 0
Yellow == 1
Green == 2
MaxIndex == 7
MinWordSize == 3
MaxWordSize == 8
TestWordSize == 5

Colors == {Gray, Yellow, Green}
Alphabet == <<"A", "B", "C", "D", "E", "F", "G", "H", "I", "J", "K">>
\* string::operator[] at index size(): the terminating null character.
NUL == "NUL"

---------------------------------------------------------------------------
(* 32-bit int operations, on the low PatternBits bits. *)

Pow2(n) == 2 ^ n

Shl(x, n) == x * Pow2(n)
Shr(x, n) == x \div Pow2(n)
BitNot(x) == (Pow2(PatternBits) - 1) - x

RECURSIVE BitAnd(_, _)
BitAnd(a, b) ==
  IF a = 0 \/ b = 0 THEN 0
  ELSE (a % 2) * (b % 2) + 2 * BitAnd(a \div 2, b \div 2)

RECURSIVE BitOr(_, _)
BitOr(a, b) ==
  IF a = 0 THEN b
  ELSE IF b = 0 THEN a
  ELSE (IF a % 2 = 1 \/ b % 2 = 1 THEN 1 ELSE 0) + 2 * BitOr(a \div 2, b \div 2)

---------------------------------------------------------------------------
(* Pattern codec. *)

\* A slip in the range check: one position too many is let through.
ValidIndexOffByOne(index) == index >= 0 /\ index <= MaxIndex + 1

\* The range check of SetColor and GetColor.
ValidIndex(index) == index >= 0 /\ index <= MaxIndex

\* A slip in SetColor: the field is not cleared before the color is or-ed in.
SetColorNoClear(p, index, c) ==
  IF index >= 0 /\ index <= MaxIndex
    THEN [thrown |-> FALSE, p |-> BitOr(p, Shl(c, index * 2))]
    ELSE [thrown |-> TRUE, p |-> p]

\* SetColor(p, index, c): thrown = TRUE is std::invalid_argument (p untouched).
SetColor(p, index, c) ==
  IF ValidIndex(index)
    THEN LET shift == index * 2
         IN  [thrown |-> FALSE,
              p |-> BitOr(BitAnd(p, BitNot(Shl(3, shift))), Shl(c, shift))]
    ELSE [thrown |-> TRUE, p |-> p]

\* GetColor(p, index): the color read, or thrown = TRUE.
GetColor(p, index) ==
  IF ValidIndex(index)
    THEN LET shift == 2 * index
         IN  [thrown |-> FALSE,
              c |-> BitAnd(Shr(BitAnd(p, Shl(3, shift)), shift), 3)]
    ELSE [thrown |-> TRUE, c |-> Gray]

---------------------------------------------------------------------------
(* Feedback simulator. *)

\* guess[i] / other[i], 0-indexed as in the code.  Reading other[i] at
\* i = size() yields the null character; reading past it is undefined, and
\* whichever character comes back GeneratePattern ends in the throw of the
\* second pass (index wordSize - 1 - i < 0), or in that of the first pass.
CharAt(w, i) == IF i < Len(w) THEN w[i + 1] ELSE NUL

Letters(w) == {w[k] : k \in DOMAIN w}

\* The frequency map after the counting loop; operator[] on an absent key
\* yields 0, so the map is total over the letters the call touches.
CountFreq(g, other) ==
  [c \in Letters(g) \cup Letters(other) \cup {NUL} |->
     Cardinality({k \in DOMAIN other : other[k] = c})]

\* A slip in the field index: one field too far to the left.
FieldOfShifted(n, i) == n - i

\* size_t wordSize - 1 - i converted to the int parameter index.
FieldOf(n, i) == n - 1 - i

\* Slips in the simulator: an occurrence is not consumed.
KeepFreq(freq, c) == freq

\* freq[guess[i]]-- of the first pass.
ConsumeGreen(freq, c) == [freq EXCEPT ![c] = @ - 1]

\* freq[c]-- of the second pass.
ConsumeYellow(freq, c) == [freq EXCEPT ![c] = @ - 1]

RECURSIVE FirstPass(_, _, _, _, _)
FirstPass(st, g, other, n, i) ==
  IF st.thrown \/ i >= Len(g) THEN st
  ELSE IF CharAt(g, i) = CharAt(other, i)
    THEN LET r == SetColor(st.p, FieldOf(n, i), Green)
         IN  FirstPass([thrown |-> r.thrown, p |-> r.p,
                        freq |-> ConsumeGreen(st.freq, CharAt(g, i))],
                       g, other, n, i + 1)
    ELSE FirstPass(st, g, other, n, i + 1)

RECURSIVE SecondPass(_, _, _, _)
SecondPass(st, g, n, i) ==
  IF st.thrown \/ i >= Len(g) THEN st
  ELSE LET c == CharAt(g, i)
           got == GetColor(st.p, FieldOf(n, i))
       IN  IF got.thrown THEN [st EXCEPT !.thrown = TRUE]
           ELSE IF got.c = Green THEN SecondPass(st, g, n, i + 1)
           ELSE IF st.freq[c] # 0
             THEN LET r == SetColor(st.p, FieldOf(n, i), Yellow)
                  IN  SecondPass([thrown |-> r.thrown, p |-> r.p,
                                  freq |-> ConsumeYellow(st.freq, c)],
                                 g, n, i + 1)
             ELSE LET r == SetColor(st.p, FieldOf(n, i), Gray)
                  IN  SecondPass([st EXCEPT !.thrown = r.thrown, !.p = r.p],
                                 g, n, i + 1)

\* GeneratePattern(guess, other, wordSize): the pattern, or thrown = TRUE when
\* a SetColor/GetColor inside it throws.
GeneratePattern(g, other, n) ==
  LET st0 == [thrown |-> FALSE, p |-> 0, freq |-> CountFreq(g, other)]
      st1 == FirstPass(st0, g, other, n, 0)
      st2 == SecondPass(st1, g, n, 0)
  IN  [thrown |-> st2.thrown, p |-> st2.p]

\* A slip in the all-Green construction: the last field is left out.
RECURSIVE buildAllGreenShort(_)
buildAllGreenShort(n) ==
  IF n <= 1 THEN 0 ELSE BitOr(buildAllGreenShort(n - 1), Shl(2, (n - 2) * 2))

\* ag |= (2 << (i * 2)) for i in 0..wordSize-1.
RECURSIVE buildAllGreen(_)
buildAllGreen(n) ==
  IF n <= 0 THEN 0 ELSE BitOr(buildAllGreen(n - 1), Shl(2, (n - 1) * 2))

---------------------------------------------------------------------------
(* Candidate filter. *)

\* A slip in the filter: the first candidate is never examined.
RECURSIVE FilterSkipFirst(_, _, _, _)
FilterSkipFirst(p, g, words, n) ==
  IF words = <<>> THEN [thrown |-> FALSE, words |-> <<>>]
  ELSE LET rest == [k \in 1..(Len(words) - 1) |-> words[k + 1]]
           keep == SelectSeq(rest, LAMBDA w : GeneratePattern(g, w, n).p = p)
       IN  [thrown |-> FALSE, words |-> keep]

\* copy_if over validWords; an exception of GeneratePattern leaves copy_if.
FilterAllWordsBestOnPattern(p, g, words, n) ==
  IF \E k \in DOMAIN words : GeneratePattern(g, words[k], n).thrown
    THEN [thrown |-> TRUE, words |-> <<>>]
    ELSE [thrown |-> FALSE,
          words |-> SelectSeq(words, LAMBDA w : GeneratePattern(g, w, n).p = p)]

---------------------------------------------------------------------------
(* Entropy ranker. *)

\* c^c, the factor one pattern's count contributes to the entropy key.
Power(b, e) == b ^ e

RECURSIVE Product(_, _)
Product(f, S) ==
  IF S = {} THEN 1
  ELSE LET k == CHOOSE x \in S : TRUE
       IN  Power(f[k], f[k]) * Product(f, S \ {k})

RECURSIVE Sum(_, _)
Sum(f, S) ==
  IF S = {} THEN 0
  ELSE LET k == CHOOSE x \in S : TRUE IN f[k] + Sum(f, S \ {k})

\* CalculateEntropy(counts).  With n = sumCounts the double it returns is
\*   H = log2(n) - log2(weight) / n,   weight = the product of c^c over counts,
\* which the model keeps exactly as the pair (total, weight).  An empty map
\* gives -0.0: the pair (0, 1).
CalculateEntropy(counts) ==
  [total |-> Sum(counts, DOMAIN counts), weight |-> Product(counts, DOMAIN counts)]

\* A slip in the comparator: the order is reversed.
CompareDoubleReversed(a, b) == a.weight < b.weight

\* CompareDouble()(a, b): a - b < -EPSILON.  Every key of one EntropiesMap has
\* the same total n = N - 1, so a < b iff weight(a) > weight(b); two different
\* weights put the doubles at least log2(1 + n^-n) / n apart, far above
\* EPSILON = 1e-9 and the rounding noise for the n of this model.
CompareDouble(a, b) == a.weight > b.weight

\* The unordered_map pCounters of words[i] (1-indexed here).
PatternCounts(words, n, i) ==
  LET others == {j \in DOMAIN words : j # i}
      pat == {<<j, GeneratePattern(words[i], words[j], n).p>> : j \in others}
  IN  [p \in {x[2] : x \in pat} |-> Cardinality({x \in pat : x[2] = p})]

\* entropies[h].push_back(w): the key equivalent to h under the comparator
\* if the map holds one, else a new entry.
MapPushBack(entropies, h, w) ==
  LET same == {k \in DOMAIN entropies :
                 ~CompareDouble(k, h) /\ ~CompareDouble(h, k)}
  IN  IF same # {}
        THEN LET k == CHOOSE x \in same : TRUE
             IN  [entropies EXCEPT ![k] = Append(@, w)]
        ELSE (h :> <<w>>) @@ entropies

RECURSIVE CalculateEntropiesFrom(_, _, _, _)
CalculateEntropiesFrom(words, n, i, entropies) ==
  IF i > Len(words) THEN entropies
  ELSE CalculateEntropiesFrom(words, n, i + 1,
         MapPushBack(entropies,
                     CalculateEntropy(PatternCounts(words, n, i)), words[i]))

\* CalculateEntropies(words, wordSize, entropies) on an empty map.
CalculateEntropies(words, n) == CalculateEntropiesFrom(words, n, 1, <<>>)

\* GetNextBestGuess(validWords): empty = TRUE is the branch of the assert
\* (no entry in the map: validWords is empty); otherwise the first word of
\* the greatest key.
GetNextBestGuess(words, n) ==
  LET entropies == CalculateEntropies(words, n)
  IN  IF DOMAIN entropies = {}
        THEN [empty |-> TRUE, word |-> <<>>]
        ELSE LET greatest == CHOOSE k \in DOMAIN entropies :
                               \A o \in DOMAIN entropies : ~CompareDouble(k, o)
             IN  [empty |-> FALSE, word |-> entropies[greatest][1]]

---------------------------------------------------------------------------
(* Inputs. *)

FirstLetters(k) == {Alphabet[j] : j \in 1..k}
WordsOver(n, k) == [1..n -> FirstLetters(k)]

Repeat(c, n) == [k \in 1..n |-> c]

\* All sequences of at most m elements of S.
SeqsUpTo(S, m) == UNION {[1..k -> S] : k \in 0..m}

\* The test cases of Testing::TestGeneratePattern.
CRANE == <<"C", "R", "A", "N", "E">>
LIGHT == <<"L", "I", "G", "H", "T">>
BLAME == <<"B", "L", "A", "M", "E">>
LEMON == <<"L", "E", "M", "O", "N">>
APPLE == <<"A", "P", "P", "L", "E">>
PLATE == <<"P", "L", "A", "T", "E">>
MAMBO == <<"M", "A", "M", "B", "O">>
AMAZE == <<"A", "M", "A", "Z", "E">>
TestCases ==
  {<<CRANE, LIGHT>>, <<CRANE, CRANE>>, <<CRANE, BLAME>>, <<CRANE, LEMON>>,
   <<APPLE, PLATE>>, <<MAMBO, AMAZE>>}

NoStep == [input |-> "none", pc |-> "none", k |-> 0]
NoCall == [op |-> "none", p |-> 0, index |-> 0, c |-> Gray,
           g |-> <<>>, other |-> <<>>, n |-> 0, words |-> <<>>]
NoRet == [done |-> FALSE, thrown |-> FALSE, p |-> 0, c |-> Gray, words |-> <<>>]

CodecPatterns ==
  LET low == 0..(Power(4, CodecFields) - 1)
  IN  low \cup {q * Power(4, MaxIndex + 1 - CodecFields) : q \in low}
CodecIndices == (0 - IndexSlack)..(MaxIndex + IndexSlack)

SetColorCalls ==
  {[NoCall EXCEPT !.op = "SetColor", !.p = q, !.index = i, !.c = c] :
     q \in CodecPatterns, i \in CodecIndices, c \in Colors}
GetColorCalls ==
  {[NoCall EXCEPT !.op = "GetColor", !.p = q, !.index = i] :
     q \in CodecPatterns, i \in CodecIndices}
PairCalls ==
  {[NoCall EXCEPT !.op = "GeneratePattern", !.g = a, !.other = b,
                  !.n = MinWordSize] :
     a \in WordsOver(MinWordSize, PairLetters),
     b \in WordsOver(MinWordSize, PairLetters)}
    \cup
  UNION {{[NoCall EXCEPT !.op = "GeneratePattern", !.g = a, !.other = b, !.n = n] :
            a \in WordsOver(n, 2), b \in WordsOver(n, 2)} :
         n \in MinWordSize..MaxPairSize}
SelfCalls ==
  UNION {{[NoCall EXCEPT !.op = "GeneratePattern", !.g = a, !.other = a, !.n = n] :
            a \in WordsOver(n, SelfLetters)} :
         n \in MinWordSize..MaxWordSize}
TestCalls ==
  {[NoCall EXCEPT !.op = "GeneratePattern", !.g = t[1], !.other = t[2],
                  !.n = TestWordSize] : t \in TestCases}
\* The words the filter is tried on: two that differ from the guess "AAA"
\* in one letter, one that holds its letters elsewhere, and the guess.
FilterWords ==
  {<<"A", "A", "A">>, <<"B", "A", "A">>, <<"C", "A", "A">>, <<"A", "B", "B">>}
FilterCalls ==
  UNION {{[NoCall EXCEPT !.op = "Filter", !.p = q, !.g = a, !.words = ws,
                         !.n = MinWordSize] :
            q \in {GeneratePattern(a, t, MinWordSize).p : t \in FilterWords} \cup {0},
            ws \in SeqsUpTo(FilterWords, MaxCandidates)} :
         a \in FilterWords}

---------------------------------------------------------------------------
(* The pure functions, each applied once to inputs drawn by InitFunctions. *)

Idle ==
  /\ wordSize = 0 /\ dictionary = <<>> /\ validWords = <<>>
  /\ wordToGuess = <<>> /\ guess = <<>> /\ guesses = 0 /\ rounds = 0
  /\ guessed = <<>>
  /\ result = [has |-> FALSE, word |-> <<>>]
  /\ command = "" /\ lastGuess = <<>> /\ pats = <<>>
  /\ last = NoStep

gameVars == <<mode, wordSize, dictionary, validWords, wordToGuess, guess,
              guesses, rounds, guessed, result, command, lastGuess, pats, pc,
              last>>

InitFunctions ==
  /\ mode = "functions"
  /\ pc = "call"
  /\ call \in SetColorCalls \cup GetColorCalls \cup PairCalls \cup SelfCalls
                \cup TestCalls \cup FilterCalls
  /\ ret = NoRet
  /\ Idle

ApplySetColor ==
  /\ mode = "functions" /\ call.op = "SetColor" /\ ~ret.done
  /\ LET r == SetColor(call.p, call.index, call.c)
     IN  ret' = [NoRet EXCEPT !.done = TRUE, !.thrown = r.thrown, !.p = r.p]
  /\ UNCHANGED <<call, gameVars>>

ApplyGetColor ==
  /\ mode = "functions" /\ call.op = "GetColor" /\ ~ret.done
  /\ LET r == GetColor(call.p, call.index)
     IN  ret' = [NoRet EXCEPT !.done = TRUE, !.thrown = r.thrown, !.p = call.p,
                              !.c = r.c]
  /\ UNCHANGED <<call, gameVars>>

ApplyGeneratePattern ==
  /\ mode = "functions" /\ call.op = "GeneratePattern" /\ ~ret.done
  /\ LET r == GeneratePattern(call.g, call.other, call.n)
     IN  ret' = [NoRet EXCEPT !.done = TRUE, !.thrown = r.thrown, !.p = r.p]
  /\ UNCHANGED <<call, gameVars>>

ApplyFilter ==
  /\ mode = "functions" /\ call.op = "Filter" /\ ~ret.done
  /\ LET r == FilterAllWordsBestOnPattern(call.p, call.g, call.words, call.n)
     IN  ret' = [NoRet EXCEPT !.done = TRUE, !.thrown = r.thrown, !.words = r.words]
  /\ UNCHANGED <<call, gameVars>>

NextFunctions == ApplySetColor \/ ApplyGetColor \/ ApplyGeneratePattern \/ ApplyFilter

SpecFunctions == InitFunctions /\ [][NextFunctions]_vars

---------------------------------------------------------------------------
(* The drivers. *)

Range(w) == {w[k] : k \in DOMAIN w}

\* The elements of S in the order of the sequence all.
RECURSIVE InOrder(_, _)
InOrder(S, all) ==
  IF all = <<>> THEN <<>>
  ELSE (IF Head(all) \in S THEN <<Head(all)>> ELSE <<>>) \o InOrder(S, Tail(all))

Reverse(w) == [k \in 1..Len(w) |-> w[Len(w) + 1 - k]]

\* The lexicon in a fixed order: the words that differ in their first
\* letter, then the word that shares letters at other positions.
LexiconSeq(n) ==
  [j \in 1..(n + 2) |-> <<Alphabet[j]>> \o Repeat("A", n - 1)]
    \o << <<"A", "B">> \o Repeat("A", n - 2) >>

\* The words the interactive sessions' dictionaries are drawn from: two of
\* the words above that differ in the first letter, the word that shares
\* letters with them, and a word that shares none.
OfflineLexiconSeq(n) ==
  << Repeat("A", n), <<"B">> \o Repeat("A", n - 1),
     <<"A", "B">> \o Repeat("A", n - 2), Repeat("C", n) >>

\* Wordle::dictionary after LoadDictionary: distinct words of length n (they
\* come out of an unordered_set, so in no particular order).  The model
\* takes every non-empty set of at most m words of the sequence all, in the
\* order of all and in the reverse order.
Dictionaries(all, m) ==
  LET sets == {S \in SUBSET Range(all) : S # {} /\ Cardinality(S) <= m}
  IN  {InOrder(S, all) : S \in sets} \cup {Reverse(InOrder(S, all)) : S \in sets}

\* What the user may type after "word": nothing, a lexicon word, a word
\* one letter too long, a word one letter too short.
WordInputs(n) ==
  {<<>>, <<"A", "B">> \o Repeat("A", n - 2), Repeat("A", n + 1), Repeat("A", n - 1)}

Commands == {"guess", "word", "remove", "quit", "", "hint"}
Tokens == {"gn", "y", "gr", "quit", "remove", "green"}

NoResult == [has |-> FALSE, word |-> <<>>]

\* A slip in the loop bound of PlayRandomGame: one round too many.
MaxGuessesOffByOne(n) == n + 2

\* The round budget of PlayRandomGame: guesses < wordSize + 1.
MaxGuesses(n) == n + 1

\* What a call of GetNextBestGuess(words) ends in.  On an empty validWords
\* the map is empty: the assert fails (aborted), or, in a build without
\* asserts, validWords[0] reads storage the vector does not own and hands
\* back whatever is there (nothing, or a word that was stored before), or
\* the read crashes (aborted).
GuessOutcomes(words, n, dict) ==
  LET r == GetNextBestGuess(words, n)
  IN  IF r.empty
        THEN {[aborted |-> TRUE, word |-> <<>>]}
               \cup {[aborted |-> FALSE, word |-> w] : w \in {<<>>} \cup Range(dict)}
        ELSE {[aborted |-> FALSE, word |-> r.word]}

\* A slip in the drivers: the whole dictionary is filtered, not the
\* candidates that are left.
NarrowFromDictionary(p, g, words, dict, n) ==
  FilterAllWordsBestOnPattern(p, g, dict, n)

\* validWords = FilterAllWordsBestOnPattern(p, guess, validWords, wordSize).
Narrow(p, g, words, dict, n) == FilterAllWordsBestOnPattern(p, g, words, n)

\* find + erase: the first occurrence of w leaves the sequence.
RECURSIVE Erase(_, _)
Erase(words, w) ==
  IF words = <<>> THEN <<>>
  ELSE IF Head(words) = w THEN Tail(words)
  ELSE <<Head(words)>> \o Erase(Tail(words), w)

TokenColor(tok) == IF tok = "gn" THEN Green ELSE IF tok = "y" THEN Yellow ELSE Gray

\* buildPattern(pats): token i goes to field wordSize - 1 - i.
RECURSIVE buildPatternFrom(_, _, _, _)
buildPatternFrom(st, patterns, n, i) ==
  IF st.thrown \/ i >= Len(patterns) THEN st
  ELSE buildPatternFrom(SetColor(st.p, FieldOf(n, i), TokenColor(patterns[i + 1])),
                        patterns, n, i + 1)

buildPattern(patterns, n) ==
  buildPatternFrom([thrown |-> FALSE, p |-> 0], patterns, n, 0)

\* What a step leaves in the history variable last.
Step(input) == [input |-> input, pc |-> pc, k |-> Len(pats)]

functionVars == <<call, ret>>
randomVars == <<wordToGuess, guess, guesses, result, rounds, guessed>>
offlineVars == <<command, lastGuess, pats>>

---------------------------------------------------------------------------
(* PlayRandomGame. *)

InitRandom ==
  /\ mode = "random"
  /\ call = NoCall /\ ret = NoRet
  /\ wordSize \in MinWordSize..MaxGameSize
  /\ dictionary \in Dictionaries(LexiconSeq(wordSize), wordSize + 3)
  /\ validWords = dictionary
  /\ wordToGuess \in Range(dictionary)
  /\ guess = <<>> /\ guesses = 0 /\ rounds = 0 /\ guessed = <<>>
  /\ result = NoResult
  /\ command = "" /\ lastGuess = <<>> /\ pats = <<>>
  /\ pc = "Playing"
  /\ last = NoStep

\* One pass through the body of the for loop.
PlayRound ==
  /\ mode = "random" /\ pc = "Playing"
  /\ guesses < MaxGuesses(wordSize) /\ guess # wordToGuess
  /\ last' = Step("round")
  /\ rounds' = rounds + 1
  /\ \E o \in GuessOutcomes(validWords, wordSize, dictionary) :
       LET p == GeneratePattern(o.word, wordToGuess, wordSize)
           f == Narrow(p.p, o.word, validWords, dictionary, wordSize)
       IN  IF o.aborted \/ p.thrown
             THEN /\ pc' = "Aborted"
                  /\ UNCHANGED <<validWords, guess, guesses, result, guessed>>
           ELSE IF p.p # buildAllGreen(wordSize)
             THEN /\ guess' = o.word
                  /\ guessed' = Append(guessed, o.word)
                  /\ IF f.thrown
                       THEN pc' = "Aborted" /\ UNCHANGED <<validWords, guesses>>
                       ELSE /\ validWords' = f.words
                            /\ guesses' = guesses + 1
                            /\ pc' = "Playing"
                  /\ UNCHANGED result
             ELSE /\ guess' = o.word
                  /\ guessed' = Append(guessed, o.word)
                  /\ result' = [has |-> TRUE, word |-> o.word]
                  /\ pc' = "Returned"
                  /\ UNCHANGED <<validWords, guesses>>
  /\ UNCHANGED <<functionVars, mode, wordSize, dictionary, wordToGuess, offlineVars>>

\* The loop condition fails: return nullopt.
GiveUp ==
  /\ mode = "random" /\ pc = "Playing"
  /\ ~(guesses < MaxGuesses(wordSize) /\ guess # wordToGuess)
  /\ last' = Step("exit")
  /\ result' = NoResult
  /\ pc' = "Returned"
  /\ UNCHANGED <<functionVars, mode, wordSize, dictionary, validWords, wordToGuess,
                 guess, guesses, rounds, guessed, offlineVars>>

NextRandom == PlayRound \/ GiveUp

\* The driver is one sequential loop: a step that can be taken is taken.
SpecRandom == InitRandom /\ [][NextRandom]_vars /\ WF_vars(NextRandom)

---------------------------------------------------------------------------
(* PlayOffLineGame. *)

InitOffline ==
  /\ mode = "offline"
  /\ call = NoCall /\ ret = NoRet
  /\ wordSize = MinWordSize
  /\ dictionary \in Dictionaries(OfflineLexiconSeq(wordSize), MaxOfflineDict)
  /\ validWords = dictionary
  /\ wordToGuess = <<>> /\ guess = <<>> /\ guesses = 0 /\ rounds = 0
  /\ guessed = <<>>
  /\ result = NoResult
  /\ command = "" /\ lastGuess = <<>> /\ pats = <<>>
  /\ pc = "AwaitingCommand"
  /\ last = NoStep

\* A slip in the guard: the last guess is not looked at.
NeedsFeedbackAnyGuess(cmd, lg) == cmd # "" /\ cmd # "remove" /\ cmd # "quit"

\* The guard of the feedback block: !command.empty() && !lastGuess.empty()
\* && command != "remove" && command != "quit".
NeedsFeedback(cmd, lg) ==
  cmd # "" /\ lg # <<>> /\ cmd # "remove" /\ cmd # "quit"

\* getline(cin, command) and the body of the do loop up to the prompt for
\* the first feedback token (or, without feedback, to the next getline).
ReadCommand ==
  /\ mode = "offline" /\ pc = "AwaitingCommand"
  /\ \E cmd \in Commands :
     \E typed \in (IF cmd = "word" THEN WordInputs(wordSize) ELSE {<<>>}) :
     \E o \in (IF cmd = "guess"
                 THEN GuessOutcomes(validWords, wordSize, dictionary)
                 ELSE {[aborted |-> FALSE, word |-> lastGuess]}) :
       LET lg == IF cmd = "guess" THEN o.word
                 ELSE IF cmd = "word" THEN typed
                 ELSE lastGuess
           vw == IF cmd = "remove" /\ lastGuess # <<>>
                   THEN Erase(validWords, lastGuess)
                   ELSE validWords
           feedback == NeedsFeedback(cmd, lg)
       IN  /\ last' = Step(cmd)
           /\ command' = cmd
           /\ pats' = <<>>
           /\ IF o.aborted
                THEN pc' = "Aborted" /\ UNCHANGED <<lastGuess, validWords>>
                ELSE /\ lastGuess' = lg
                     /\ validWords' = vw
                     /\ pc' = IF cmd = "quit" THEN "Quit"
                              ELSE IF feedback THEN "CollectingFeedback"
                              ELSE "AwaitingCommand"
  /\ UNCHANGED <<functionVars, mode, wordSize, dictionary, randomVars>>

\* promptPatterns has returned patterns: the rest of the loop body.
Finish(patterns) ==
  IF patterns = <<>>
    THEN pc' = "AwaitingCommand" /\ UNCHANGED <<validWords, lastGuess>>
    ELSE LET p == buildPattern(patterns, wordSize)
             f == Narrow(p.p, lastGuess, validWords, dictionary, wordSize)
         IN  IF p.thrown
               THEN pc' = "Aborted" /\ UNCHANGED <<validWords, lastGuess>>
             ELSE IF p.p # buildAllGreen(wordSize)
               THEN IF f.thrown
                      THEN pc' = "Aborted" /\ UNCHANGED <<validWords, lastGuess>>
                      ELSE /\ validWords' = f.words
                           /\ \E o \in GuessOutcomes(f.words, wordSize, dictionary) :
                                IF o.aborted
                                  THEN pc' = "Aborted" /\ UNCHANGED lastGuess
                                  ELSE pc' = "AwaitingCommand" /\ lastGuess' = o.word
               ELSE pc' = "Won" /\ UNCHANGED <<validWords, lastGuess>>

\* A slip in promptPatterns: every token is taken as feedback.
ValidTokenLax(tok) == tok \in Tokens

\* The test of promptPatterns: pat is "gn", "y" or "gr".
ValidToken(tok) == tok \in {"gn", "y", "gr"}

\* getline(cin, pat) inside promptPatterns and what follows it.
ReadToken ==
  /\ mode = "offline" /\ pc = "CollectingFeedback"
  /\ \E tok \in Tokens :
       /\ last' = Step(tok)
       /\ IF tok \in {"quit", "remove"}
            THEN pats' = <<>> /\ Finish(pats)
          ELSE IF ~ValidToken(tok)
            THEN UNCHANGED <<validWords, lastGuess, pats, pc>>
          ELSE IF Len(pats) + 1 < wordSize
            THEN pats' = Append(pats, tok) /\ UNCHANGED <<validWords, lastGuess, pc>>
          ELSE pats' = <<>> /\ Finish(Append(pats, tok))
  /\ UNCHANGED <<functionVars, mode, wordSize, dictionary, randomVars, command>>

NextOffline == ReadCommand \/ ReadToken

SpecOffline == InitOffline /\ [][NextOffline]_vars

\* Either driver.
InitGame == InitRandom \/ InitOffline
NextGame == PlayRound \/ GiveUp \/ ReadCommand \/ ReadToken
SpecGame == InitGame /\ [][NextGame]_vars

---------------------------------------------------------------------------
(* Claims about the pure functions (checked under SpecFunctions). *)

Returned(op) == mode = "functions" /\ call.op = op /\ ret.done

\* The color the returned pattern holds for letter i (1-indexed) of the guess.
LetterColor(i) == GetColor(ret.p, call.n - i).c

\* The indices of the candidates that produce the pattern asked for.
MatchingIndices ==
  {k \in DOMAIN call.words :
     GeneratePattern(call.g, call.words[k], call.n).p = call.p}

\* C1: FilterAllWordsBestOnPattern returns exactly the candidates w with
\* GeneratePattern(guess, w, wordSize) == pattern, in their original order:
\* the k-th matching candidate is the k-th word returned, and nothing else
\* is returned.
C1_FilterExact ==
  Returned("Filter") =>
    /\ ~ret.thrown
    /\ Len(ret.words) = Cardinality(MatchingIndices)
    /\ \A k \in MatchingIndices :
         ret.words[Cardinality({j \in MatchingIndices : j <= k})] = call.words[k]
    /\ \A k \in DOMAIN ret.words :
         GeneratePattern(call.g, ret.words[k], call.n).p = call.p

\* C1 witness: a filter call that keeps two candidates, drops one between
\* them, and so returns fewer words than it was given.
C1_Witness ==
  /\ Returned("Filter")
  /\ Len(call.words) = 3
  /\ MatchingIndices = {1, 3}
  /\ call.words[1] # call.words[3]
  /\ Len(ret.words) = 2

\* What Wordle's duplicate-letter rule asks for letter i of the guess.
GreenAt(i) == call.g[i] = call.other[i]
Available(x) ==
  Cardinality({k \in DOMAIN call.other : call.other[k] = x})
    - Cardinality({k \in DOMAIN call.g : call.g[k] = x /\ GreenAt(k)})
EarlierNonGreen(i) ==
  {j \in 1..(i - 1) : call.g[j] = call.g[i] /\ ~GreenAt(j)}
WordleColor(i) ==
  IF GreenAt(i) THEN Green
  ELSE IF Cardinality(EarlierNonGreen(i)) < Available(call.g[i]) THEN Yellow
  ELSE Gray

C3_SelfMatchAllGreen ==
  (Returned("GeneratePattern") /\ call.g = call.other
     /\ Len(call.g) = call.n /\ call.n \in MinWordSize..MaxWordSize) =>
    /\ ~ret.thrown
    /\ ret.p = buildAllGreen(call.n)
    /\ \A q \in 0..MaxIndex :
         GetColor(ret.p, q).c = (IF q < call.n THEN Green ELSE Gray)

\* C3 witness: a self-match of a word of the greatest length, 8.
C3_Witness ==
  /\ Returned("GeneratePattern")
  /\ call.g = call.other
  /\ call.n = MaxWordSize
  /\ Cardinality(Letters(call.g)) > 1
  /\ ret.p = 43690

\* C4: after SetColor(pattern, p, c) with p in 0..7, GetColor(pattern, p) is c
\* and GetColor(pattern, q) is what it was for every other position q.
C4_SetGetRoundTrip ==
  (Returned("SetColor") /\ call.index \in 0..MaxIndex) =>
    /\ ~ret.thrown
    /\ GetColor(ret.p, call.index) = [thrown |-> FALSE, c |-> call.c]
    /\ \A q \in (0..MaxIndex) \ {call.index} :
         GetColor(ret.p, q) = GetColor(call.p, q)

\* C4 witness: a write that overwrites a different non-zero color while
\* another field holds a non-zero color too.
C4_Witness ==
  /\ Returned("SetColor")
  /\ call.index \in 0..MaxIndex
  /\ GetColor(call.p, call.index).c = Green
  /\ call.c = Yellow
  /\ \E q \in (0..MaxIndex) \ {call.index} : GetColor(call.p, q).c # Gray
  /\ ret.p # call.p

\* C5: SetColor and GetColor fail with InvalidArgument exactly when the
\* position is outside 0..7; a failing SetColor leaves the pattern as it was.
C5_InvalidArgumentOutsideRange ==
  /\ Returned("SetColor") =>
       /\ ret.thrown <=> (call.index < 0 \/ call.index > 7)
       /\ ret.thrown => ret.p = call.p
  /\ Returned("GetColor") =>
       (ret.thrown <=> (call.index < 0 \/ call.index > 7))

\* C5 witness: a SetColor just above the range has thrown on a pattern that
\* is not zero.
C5_Witness ==
  /\ Returned("SetColor")
  /\ call.index = 8
  /\ call.p # 0
  /\ call.c # Gray
  /\ ret.thrown

IsTestCase(a, b) ==
  Returned("GeneratePattern") /\ call.g = a /\ call.other = b /\ call.n = TestWordSize

---------------------------------------------------------------------------
(* Claims about the drivers. *)

RECURSIVE IsSubSeq(_, _)
\* a can be had from b by deleting elements.
IsSubSeq(a, b) ==
  IF a = <<>> THEN TRUE
  ELSE IF b = <<>> THEN FALSE
  ELSE IF Head(a) = Head(b) THEN IsSubSeq(Tail(a), Tail(b))
  ELSE IsSubSeq(a, Tail(b))

AllGreenAgainstTarget(w) ==
  GeneratePattern(w, wordToGuess, wordSize).p = buildAllGreen(wordSize)

\* C8: from any non-empty dictionary and any hidden word of it, self-play
\* enters its loop body at most wordSize + 1 times and then returns: the
\* guess whose pattern was all-Green, or no value once wordSize + 1 rounds
\* have passed without an all-Green pattern.  Termination is stated by its
\* variant: every step taken inside the loop either leaves it or uses up one
\* of the wordSize + 1 rounds, the game is never aborted, and once the
\* rounds are used up the only step left is the return.
C8_SelfPlayTerminates ==
  /\ [](/\ rounds <= wordSize + 1
        /\ pc \in {"Playing", "Returned"}
        /\ pc = "Playing" => rounds = guesses
        /\ pc = "Returned" =>
             IF result.has
               THEN result.word = guess /\ AllGreenAgainstTarget(guess)
               ELSE rounds = wordSize + 1 /\ ~AllGreenAgainstTarget(guess))
  /\ [][/\ pc = "Playing"
        /\ \/ pc' = "Returned"
           \/ pc' = "Playing" /\ rounds' = rounds + 1
        /\ rounds = wordSize + 1 => pc' = "Returned" /\ ~result'.has]_vars

\* C8 witness: a game that has used up all wordSize + 1 rounds and returned
\* no value.
C8_Witness ==
  /\ mode = "random" /\ pc = "Returned"
  /\ ~result.has
  /\ rounds = wordSize + 1
  /\ Len(validWords) >= 1

\* C9: no step of either driver (a round of self-play; a guess, word,
\* remove or quit command or a feedback token of the interactive mode)
\* makes the candidate set grow: afterwards it is a sub-sequence of what it
\* was before.
C9_CandidatesNeverGrow ==
  [][IsSubSeq(validWords', validWords) /\ Len(validWords') <= Len(validWords)]_vars

\* C9 witness: a completed feedback of the interactive mode has left fewer
\* candidates than the dictionary holds, and at least one.
C9_Witness ==
  /\ mode = "offline" /\ pc = "AwaitingCommand"
  /\ last.pc = "CollectingFeedback" /\ last.input \in {"gn", "y", "gr"}
  /\ validWords # <<>>
  /\ Len(validWords) < Len(dictionary)

\* C10 as stated: "quit" or "remove" read while feedback is collected, after
\* any number k < wordSize of accepted tokens, goes back to AwaitingCommand
\* and leaves the candidate set and the last guess as they were.
C10_AsStated ==
  [][(pc = "CollectingFeedback" /\ last'.input \in {"quit", "remove"}) =>
       (pc' = "AwaitingCommand" /\ validWords' = validWords
          /\ lastGuess' = lastGuess)]_vars

\* C10 divergence: the dictionary is <<ABA, CCC>>, "guess" proposed ABA, one
\* token "gr" was accepted and then "quit" was read.  The one-token pattern
\* was used as feedback: ABA is filtered out and the last guess is CCC.
C10_Witness ==
  /\ mode = "offline" /\ pc = "AwaitingCommand"
  /\ dictionary = <<<<"A", "B", "A">>, <<"C", "C", "C">>>>
  /\ command = "guess"
  /\ last = [input |-> "quit", pc |-> "CollectingFeedback", k |-> 1]
  /\ validWords = <<<<"C", "C", "C">>>>
  /\ lastGuess = <<"C", "C", "C">>

\* The tokens of a feedback that the token tok completes.
Completed(tok) == Append(pats, tok)

AllGn(patterns) == \A i \in DOMAIN patterns : patterns[i] = "gn"

\* The step reads the last token of a feedback of wordSize valid tokens.
CompletesFeedback ==
  /\ pc = "CollectingFeedback"
  /\ last'.input \in {"gn", "y", "gr"}
  /\ Len(pats) + 1 = wordSize

\* C11: a feedback of wordSize valid tokens that are all "gn" ends the
\* session in Won without filtering (candidates and last guess as they
\* were); a completed feedback with any other token does not end in Won;
\* Won is entered in no other way, and no input is read in Won.
C11_AllGreenWins ==
  [][/\ pc # "Won"
     /\ CompletesFeedback =>
          IF AllGn(Completed(last'.input))
            THEN pc' = "Won" /\ validWords' = validWords /\ lastGuess' = lastGuess
            ELSE pc' # "Won"
     /\ pc' = "Won" => CompletesFeedback /\ AllGn(Completed(last'.input))]_vars

\* C11 witness: the session is in Won after the last of wordSize "gn"
\* tokens, with more than one candidate left unfiltered.
C11_Witness ==
  /\ mode = "offline" /\ pc = "Won"
  /\ last = [input |-> "gn", pc |-> "CollectingFeedback", k |-> wordSize - 1]
  /\ Len(validWords) > 1

\* The entropy of words[i] over the patterns it produces against every other
\* word of words, as the pair (total, weight) of CalculateEntropy.
EntropyOf(words, i) == CalculateEntropy(PatternCounts(words, wordSize, i))

\* Entropy a is greater than entropy b (same total: smaller weight).
GreaterEntropy(a, b) == a.total = b.total /\ a.weight < b.weight

\* w is the first word of words, in their order, among those of maximal
\* entropy.
FirstOfMaximalEntropy(w, words) ==
  \E i \in DOMAIN words :
    /\ words[i] = w
    /\ \A j \in DOMAIN words : ~GreaterEntropy(EntropyOf(words, j), EntropyOf(words, i))
    /\ \A j \in 1..(i - 1) : GreaterEntropy(EntropyOf(words, i), EntropyOf(words, j))

\* C12: every call of GetNextBestGuess on a sequence of at least one word
\* (a round of self-play, the "guess" command, the end of a feedback that
\* filtered) returns a word of the sequence of maximal entropy, the first
\* such word in the order of the sequence; a single candidate is returned
\* itself.
C12_BestGuessFirstOfMaximalEntropy ==
  [][/\ (last'.input = "round" /\ pc' # "Aborted" /\ validWords # <<>>) =>
          /\ FirstOfMaximalEntropy(guess', validWords)
          /\ Len(validWords) = 1 => guess' = validWords[1]
     /\ (last'.input = "guess" /\ pc' # "Aborted" /\ validWords # <<>>) =>
          /\ FirstOfMaximalEntropy(lastGuess', validWords)
          /\ Len(validWords) = 1 => lastGuess' = validWords[1]
     /\ (/\ pc = "CollectingFeedback" /\ pc' = "AwaitingCommand"
         /\ ~(last'.input \in {"quit", "remove"} /\ pats = <<>>)
         /\ validWords' # <<>>) =>
          /\ FirstOfMaximalEntropy(lastGuess', validWords')
          /\ Len(validWords') = 1 => lastGuess' = validWords'[1]]_vars

\* C12 witness: the first guess of a self-play game is not the first word
\* of the candidates: a later word has greater entropy.
C12_Witness ==
  /\ mode = "random" /\ rounds = 1 /\ pc = "Playing"
  /\ guess # dictionary[1]
  /\ \A i \in DOMAIN dictionary :
       dictionary[i] = guess =>
         GreaterEntropy(EntropyOf(dictionary, i), EntropyOf(dictionary, 1))

\* The step handles a command read in AwaitingCommand.
HandlesCommand == pc = "AwaitingCommand" /\ last'.pc = "AwaitingCommand"

\* C13 as stated: from AwaitingCommand every command other than "remove"
\* and "quit" starts the feedback prompt, whatever its text and whether or
\* not a last guess is set.
C13_AsStated ==
  [][(HandlesCommand /\ last'.input \notin {"remove", "quit"}) =>
       pc' = "CollectingFeedback"]_vars

\* C13: a command handled without a failed assertion starts the feedback
\* prompt exactly when it is not empty, is neither "remove" nor "quit", and
\* the last guess is not empty once the command has been handled ("guess"
\* sets it to the proposed word, "word" to the line typed, any other text
\* leaves it); "quit" ends the session and every other command goes back to
\* AwaitingCommand.
C13_FeedbackNeedsLastGuess ==
  [][(HandlesCommand /\ pc' # "Aborted") =>
       /\ pc' = "CollectingFeedback" <=>
            /\ last'.input \notin {"", "remove", "quit"}
            /\ lastGuess' # <<>>
       /\ pc' = "Quit" <=> last'.input = "quit"
       /\ pc' \in {"CollectingFeedback", "Quit", "AwaitingCommand"}
       /\ last'.input \notin {"guess", "word"} => lastGuess' = lastGuess]_vars

\* C13 witness: a command that is neither "remove" nor "quit" was entered
\* while no last guess was set, and the session is still in AwaitingCommand.
C13_Witness ==
  /\ mode = "offline" /\ pc = "AwaitingCommand"
  /\ last = [input |-> "hint", pc |-> "AwaitingCommand", k |-> 0]
  /\ lastGuess = <<>>

\* The step reads a feedback token that is neither "quit" nor "remove".
ReadsToken ==
  /\ pc = "CollectingFeedback" /\ last'.pc = "CollectingFeedback"
  /\ last'.input \notin {"quit", "remove"}

\* C14: a token that is none of "gn", "y", "gr" (nor "quit", "remove") is
\* answered by a new prompt for the same letter: the session stays in
\* CollectingFeedback, the accepted tokens, the candidates and the last
\* guess are as they were, and nothing is thrown.  A valid token is
\* appended, and the feedback is complete (the prompt is left and the
\* tokens are used) only with the token that makes them wordSize.
C14_InvalidTokenReprompts ==
  [][ReadsToken =>
       IF last'.input \notin {"gn", "y", "gr"}
         THEN /\ pc' = "CollectingFeedback"
              /\ pats' = pats
              /\ validWords' = validWords
              /\ lastGuess' = lastGuess
       ELSE IF Len(pats) + 1 < wordSize
         THEN /\ pc' = "CollectingFeedback"
              /\ pats' = Append(pats, last'.input)
              /\ validWords' = validWords
              /\ lastGuess' = lastGuess
         ELSE /\ Len(pats) + 1 = wordSize
              /\ pc' # "CollectingFeedback"
              /\ pats' = <<>>]_vars

\* C14 witness: an unrecognized token was read after one accepted token and
\* the prompt is still at the second letter.
C14_Witness ==
  /\ mode = "offline" /\ pc = "CollectingFeedback"
  /\ last = [input |-> "green", pc |-> "CollectingFeedback", k |-> 1]
  /\ Len(pats) = 1

\* The step ends a feedback whose pattern is used to filter a non-empty
\* candidate set: copy_if calls GeneratePattern(lastGuess, w, wordSize) for
\* the candidates w.
FiltersOnFeedback ==
  /\ pc = "CollectingFeedback"
  /\ pc' \in {"AwaitingCommand", "Aborted"}
  /\ ~(last'.input \in {"quit", "remove"} /\ pats = <<>>)
  /\ validWords # <<>>

\* C15 as stated: in both drivers every call of GeneratePattern gets a guess
\* and a target of length wordSize (also when the guess was typed after
\* "word"), and no call ends in the throw of an index outside 0..wordSize-1.
C15_AsStated ==
  [][/\ FiltersOnFeedback =>
          /\ Len(lastGuess) = wordSize
          /\ \A k \in DOMAIN validWords : Len(validWords[k]) = wordSize
          /\ ~FilterAllWordsBestOnPattern(0, lastGuess, validWords, wordSize).thrown
     /\ (last'.input = "round" /\ validWords # <<>>) =>
          /\ Len(guess') = wordSize /\ Len(wordToGuess) = wordSize
          /\ \A k \in DOMAIN validWords : Len(validWords[k]) = wordSize]_vars

\* C15 divergence: a word of wordSize + 1 letters was typed after "word",
\* a feedback was completed, and the filter's call of GeneratePattern threw.
C15_Witness ==
  /\ mode = "offline" /\ pc = "Aborted"
  /\ command = "word"
  /\ Len(lastGuess) = wordSize + 1
  /\ validWords = <<<<"A", "A", "A">>>>
  /\ last = [input |-> "gr", pc |-> "CollectingFeedback", k |-> wordSize - 1]

\* The step ends a feedback that is used to filter: GetNextBestGuess is
\* called on the filtered candidates when the filter returns.
GuessesAfterFeedback ==
  /\ pc = "CollectingFeedback"
  /\ pc' \in {"AwaitingCommand", "Aborted"}
  /\ ~(last'.input \in {"quit", "remove"} /\ pats = <<>>)

\* C16 as stated: in a session started from a non-empty dictionary,
\* GetNextBestGuess is only called on a candidate set of at least one word
\* (by "guess" on the current candidates, after a feedback on the filtered
\* ones), whatever the inputs were.
C16_AsStated ==
  [][/\ (HandlesCommand /\ last'.input = "guess") => validWords # <<>>
     /\ GuessesAfterFeedback => validWords' # <<>>]_vars

\* C16 divergence: the dictionary is <<AAA>>, "guess" proposed AAA and the
\* feedback "gr", "gr", "gr" filtered it out: GetNextBestGuess ran on no
\* candidate and its assertion failed.
C16_Witness ==
  /\ mode = "offline" /\ pc = "Aborted"
  /\ dictionary = <<<<"A", "A", "A">>>>
  /\ command = "guess"
  /\ last = [input |-> "gr", pc |-> "CollectingFeedback", k |-> wordSize - 1]
  /\ validWords = <<>>

\* The 2-bit field of p at position i, by arithmetic.
Field(p, i) == (p \div (4 ^ i)) % 4

\* p has n meaningful fields: nothing is set at a position >= n, and no
\* field holds the unused code 3.
WellFormed(p, n) ==
  /\ p \in 0..(4 ^ n - 1)
  /\ \A i \in 0..(n - 1) : Field(p, i) \in {Gray, Yellow, Green}

ValidTokens == {"gn", "y", "gr"}

\* C17: the patterns of a game have exactly wordSize meaningful fields: the
\* all-Green pattern; the pattern GeneratePattern gives for a guess (a
\* candidate, the guess or the last guess) against a target (a candidate,
\* the hidden word), both of length wordSize; and the pattern the feedback
\* builder makes of the tokens accepted so far and of those with one more
\* token.
C17_PatternHasWordSizeFields ==
  LET sized(S) == {w \in S : Len(w) = wordSize}
      guessWords == Range(validWords) \cup sized({lastGuess, guess})
      targets == Range(validWords) \cup sized({wordToGuess})
  IN  /\ WellFormed(buildAllGreen(wordSize), wordSize)
      /\ \A a \in guessWords : \A b \in targets :
           LET r == GeneratePattern(a, b, wordSize)
           IN  ~r.thrown /\ WellFormed(r.p, wordSize)
      /\ LET r == buildPattern(pats, wordSize)
         IN  ~r.thrown /\ WellFormed(r.p, wordSize)
      /\ \A tok \in ValidTokens :
           LET r == buildPattern(Append(pats, tok), wordSize)
           IN  Len(pats) < wordSize => ~r.thrown /\ WellFormed(r.p, wordSize)

\* C17 witness: an interactive session has accepted a Green and a Yellow
\* token for a guess typed after "word" (the next token completes a pattern
\* with more than one color), from a dictionary of several words.
C17_Witness ==
  /\ mode = "offline" /\ pc = "CollectingFeedback"
  /\ pats = <<"gn", "y">>
  /\ Len(lastGuess) = wordSize
  /\ Len(dictionary) > 1

\* C18: in self-play the hidden word is among the candidates whenever a
\* round starts (and still when the game has returned), so the candidates
\* are never empty and GetNextBestGuess never fails its assertion.
C18_TargetStaysCandidate ==
  /\ \E k \in DOMAIN validWords : validWords[k] = wordToGuess
  /\ validWords # <<>>
  /\ pc # "Aborted"
  /\ ~GetNextBestGuess(validWords, wordSize).empty

\* C18 witness: a third round is about to start; two filters have removed
\* candidates and left the hidden word and at least one other word.
C18_Witness ==
  /\ mode = "random" /\ pc = "Playing" /\ rounds = 2
  /\ guess # wordToGuess
  /\ Len(validWords) >= 2
  /\ Len(validWords) < Len(dictionary)

\* C19: when self-play returns a word, it is the hidden word; and for the
\* words of the dictionary (length wordSize) the pattern of a guess against
\* a target is all-Green only if the two are the same word.
C19_SuccessIsTarget ==
  /\ result.has => pc = "Returned" /\ result.word = wordToGuess
  /\ \A k \in DOMAIN dictionary :
       GeneratePattern(dictionary[k], wordToGuess, wordSize).p
           = buildAllGreen(wordSize)
         => dictionary[k] = wordToGuess

\* C19 witness: a game has returned its second guess, from a dictionary of
\* several words.
C19_Witness ==
  /\ mode = "random" /\ pc = "Returned" /\ result.has
  /\ rounds = 2
  /\ guessed = <<guessed[1], wordToGuess>>

\* C20: in self-play every guess is one of the current candidates; after a
\* round that did not win the guess is no longer among them and they are
\* fewer than before; no word is guessed twice in one game.
C20_GuessLeavesCandidates ==
  /\ [][(last'.input = "round" /\ pc' # "Aborted") =>
          /\ \E k \in DOMAIN validWords : validWords[k] = guess'
          /\ pc' = "Playing" =>
               /\ \A k \in DOMAIN validWords' : validWords'[k] # guess'
               /\ Len(validWords') < Len(validWords)]_vars
  /\ [](\A i, j \in DOMAIN guessed : i # j => guessed[i] # guessed[j])

\* C20 witness: three rounds have been played without a win and a fourth
\* can start.
C20_Witness ==
  /\ mode = "random" /\ pc = "Playing"
  /\ Len(guessed) = 3
  /\ guess # wordToGuess
  /\ guesses < wordSize + 1

=============================================================================
